---------------------------- MODULE Spec2Model ----------------------------
(***************************************************************************)
(* House_prediction: the field cleaners (src/utils.py), the training       *)
(* pipeline clean_data_n_return_estimator (src/utils.py), the scraper's    *)
(* row writer (src/scrape_data.py) and the prediction handler              *)
(* (src/server.py).                                                        *)
(*                                                                         *)
(* A Python str is a sequence of one-character strings.  The two code      *)
(* points outside ASCII that the case mappings need are written by name:   *)
(* "U+0130" (LATIN CAPITAL LETTER I WITH DOT ABOVE) and "U+0307"           *)
(* (COMBINING DOT ABOVE).                                                  *)
(***************************************************************************)
EXTENDS Integers, Sequences, FiniteSets

VARIABLES text, out, out2, cpc,
          df, once, twice, kpc,
          table, train, artifact, pred, completed, runs, lastop

vars == <<text, out, out2, cpc, df, once, twice, kpc,
          table, train, artifact, pred, completed, runs, lastop>>

cleanerVars == <<text, out, out2, cpc>>
chainVars == <<df, once, twice, kpc>>
pipelineVars == <<table, train, artifact, pred, completed, runs, lastop>>

(***************************************************************************)
(* Bounds of the model.                                                    *)
(***************************************************************************)
MaxAddrLen == 4
MaxChunks == 2
MaxChainRows == 3
MaxRows == 3
MaxExtra == 3
MaxLifeRows == 3
MaxRuns == 2

Min(a, b) == IF a < b THEN a ELSE b
Max(a, b) == IF a > b THEN a ELSE b

RECURSIVE Concat(_)
Concat(ss) == IF ss = <<>> THEN <<>> ELSE Head(ss) \o Concat(Tail(ss))

(***************************************************************************)
(* Characters and Python's case mappings.                                  *)
(***************************************************************************)
Lowers == <<"a","b","c","d","e","f","g","h","i","j","k","l","m",
            "n","o","p","q","r","s","t","u","v","w","x","y","z">>
Uppers == <<"A","B","C","D","E","F","G","H","I","J","K","L","M",
            "N","O","P","Q","R","S","T","U","V","W","X","Y","Z">>
Digits == <<"0","1","2","3","4","5","6","7","8","9">>

Range(s) == {s[i] : i \in DOMAIN s}
IndexOf(c, s) == CHOOSE i \in DOMAIN s : s[i] = c

\* code point order of the model's characters
CodePoints == <<" ", ",", "-">> \o Digits \o Uppers \o Lowers \o <<"U+0130", "U+0307">>
CharSet == Range(CodePoints)
LowerSet == Range(Lowers)
UpperSet == Range(Uppers) \cup {"U+0130"}
DigitSet == Range(Digits)

IsLower(c) == c \in LowerSet
IsUpper(c) == c \in UpperSet
\* the class \d of the re module, over the model's characters
IsDigit(c) == c \in DigitSet
\* Unicode property Cased; U+0307 is a combining mark and is not cased
IsCased(c) == IsLower(c) \/ IsUpper(c)
IsSpace(c) == c = " "

\* the simple (one code point) lower-case mapping the re module folds with
SimpleLowerMap ==
  [c \in CharSet |->
     IF c \in Range(Uppers) THEN Lowers[IndexOf(c, Uppers)]
     ELSE IF c = "U+0130" THEN "i"
     ELSE c]

SimpleLower(c) == SimpleLowerMap[c]

\* the full lower-case mapping str.title / str.lower use; U+0130 becomes
\* the two code points "i" U+0307
FullLowerMap ==
  [c \in CharSet |->
     IF c \in Range(Uppers) THEN <<Lowers[IndexOf(c, Uppers)]>>
     ELSE IF c = "U+0130" THEN <<"i", "U+0307">>
     ELSE <<c>>]

FullLower(c) == FullLowerMap[c]

\* the full title-case mapping
FullTitleMap ==
  [c \in CharSet |->
     IF c \in Range(Lowers) THEN <<Uppers[IndexOf(c, Lowers)]>>
     ELSE <<c>>]

FullTitle(c) == FullTitleMap[c]

\* str.title(): a cased character is title-cased when the character before
\* it is not cased, lower-cased otherwise
RECURSIVE TitleFrom(_, _)
TitleFrom(s, prevCased) ==
  IF s = <<>> THEN <<>>
  ELSE (IF prevCased THEN FullLower(Head(s)) ELSE FullTitle(Head(s)))
       \o TitleFrom(Tail(s), IsCased(Head(s)))

Title(s) == TitleFrom(s, FALSE)

(***************************************************************************)
(* str.split(","), list slicing, str.strip() and str.join.                 *)
(***************************************************************************)
RECURSIVE SplitAcc(_, _, _)
SplitAcc(s, cur, acc) ==
  IF s = <<>> THEN Append(acc, cur)
  ELSE IF Head(s) = ","
       THEN SplitAcc(Tail(s), <<>>, Append(acc, cur))
       ELSE SplitAcc(Tail(s), Append(cur, Head(s)), acc)

Split(s) == SplitAcc(s, <<>>, <<>>)

\* lst[-2:-1]: both ends count from the end and are clamped at 0
SliceLastButOne(lst) ==
  LET lo == Max(Len(lst) - 2, 0)
      hi == Max(Len(lst) - 1, 0)
  IN  SubSeq(lst, lo + 1, hi)

RECURSIVE LStrip(_)
LStrip(s) == IF s # <<>> /\ IsSpace(Head(s)) THEN LStrip(Tail(s)) ELSE s

RECURSIVE RStrip(_)
RStrip(s) ==
  IF s # <<>> /\ IsSpace(s[Len(s)]) THEN RStrip(SubSeq(s, 1, Len(s) - 1)) ELSE s

Strip(s) == RStrip(LStrip(s))

RECURSIVE Join(_, _)
Join(lst, sep) ==
  IF lst = <<>> THEN <<>>
  ELSE IF Len(lst) = 1 THEN Head(lst)
  ELSE Head(lst) \o sep \o Join(Tail(lst), sep)

\* a plausible slip: the last segment (the country) instead of the city
get_address_last(addr) ==
  LET segs == Split(addr)
      result == SubSeq(segs, Len(segs), Len(segs))
  IN  Join([i \in DOMAIN result |-> Strip(result[i])], <<",", " ">>)

get_address(addr) ==
  LET result == SliceLastButOne(Split(addr))
      stripped == [i \in DOMAIN result |-> Strip(result[i])]
  IN  Join(stripped, <<",", " ">>)

(***************************************************************************)
(* clean_text: re.sub(r"\D+", "", text) keeps the digits.                  *)
(***************************************************************************)
clean_text(s) == SelectSeq(s, IsDigit)

(***************************************************************************)
(* extract_details: re.findall over the keyword alternation, ignoring      *)
(* case, joined by a space and title-cased.                                *)
(***************************************************************************)
Pattern ==
  << <<"h","o","u","s","e">>,
     <<"t","e","r","r","a","c","e","d">>,
     <<"s","e","m","i","-","d","e","t","a","c","h","e","d">>,
     <<"d","e","t","a","c","h","e","d">>,
     <<"b","l","o","c","k"," ","o","f"," ","f","l","a","t","s">>,
     <<"d","u","p","l","e","x">>,
     <<"b","u","n","g","a","l","o","w">>,
     <<"m","a","n","s","i","o","n">> >>

\* keyword kw matches s at position pos under re.I
MatchesAt(s, pos, kw) ==
  /\ pos + Len(kw) - 1 <= Len(s)
  /\ \A j \in 1..Len(kw) : SimpleLower(s[pos + j - 1]) = kw[j]

\* the first alternative that matches at pos (0 when none does)
FirstAlt(s, pos) ==
  LET hits == {a \in DOMAIN Pattern : MatchesAt(s, pos, Pattern[a])}
  IN  IF hits = {} THEN 0 ELSE CHOOSE a \in hits : \A b \in hits : a <= b

RECURSIVE FindAllFrom(_, _)
FindAllFrom(s, pos) ==
  IF pos > Len(s) THEN <<>>
  ELSE LET a == FirstAlt(s, pos)
       IN  IF a = 0 THEN FindAllFrom(s, pos + 1)
           ELSE <<SubSeq(s, pos, pos + Len(Pattern[a]) - 1)>>
                \o FindAllFrom(s, pos + Len(Pattern[a]))

FindAll(s) == FindAllFrom(s, 1)

extract_details(s) == Title(Join(FindAll(s), <<" ">>))

(***************************************************************************)
(* The unified table.  A cell as pandas holds it after read_csv/concat: a  *)
(* str, an int (a column read_csv inferred as numeric) or NaN (a field the *)
(* scraper wrote as None).                                                 *)
(***************************************************************************)
StrCell(s) == [k |-> "str", s |-> s, n |-> 0]
IntCell(n) == [k |-> "int", s |-> <<>>, n |-> n]
NanCell == [k |-> "nan", s |-> <<>>, n |-> 0]

Columns == <<"title", "address", "bed", "bath", "toilet", "pkn_space", "price">>
NumericColumns == <<"bed", "bath", "toilet", "pkn_space", "price">>

\* the float NaN of a numeric column
NaN == -1

\* row-wise df.dropna()
ColumnSet == Range(Columns)
NumericColumnSet == Range(NumericColumns)

dropna(t) == SelectSeq(t, LAMBDA r : \A c \in ColumnSet : r[c].k # "nan")

\* str.split, re.findall and re.sub all raise on a value that is not a str
CleanerRaises(t) == \E i \in DOMAIN t : \E c \in ColumnSet : t[i][c].k # "str"

CleanRow(r) ==
  [c \in ColumnSet |->
     IF c = "address" THEN get_address(r[c].s)
     ELSE IF c = "title" THEN extract_details(r[c].s)
     ELSE clean_text(r[c].s)]

RECURSIVE ParseInt(_)
ParseInt(s) ==
  IF s = <<>> THEN 0
  ELSE 10 * ParseInt(SubSeq(s, 1, Len(s) - 1)) + (IndexOf(s[Len(s)], Digits) - 1)

\* pd.to_numeric on a digits-only string; the empty string converts to NaN
to_numeric(s) == IF s = <<>> THEN NaN ELSE ParseInt(s)

NumericRow(r) ==
  [c \in ColumnSet |->
     IF c \in NumericColumnSet THEN to_numeric(r[c]) ELSE r[c]]

CleanAndConvert(t) == [i \in DOMAIN t |-> NumericRow(CleanRow(t[i]))]

(***************************************************************************)
(* The row filters.  A comparison with NaN is False.                       *)
(***************************************************************************)
Gt(x, c) == x # NaN /\ x > c
Lt(x, c) == x # NaN /\ x < c

BedToiletFilter(d) == SelectSeq(d, LAMBDA r : Gt(r.bed, 1) /\ Lt(r.toilet, 8))
BathFilter(d) == SelectSeq(d, LAMBDA r : Gt(r.bath, 1) /\ Lt(r.bath, 8))

\* a plausible slip: the bound of the comment above the filter ("between 1 and 10")
PknFilterFromOne(d) == SelectSeq(d, LAMBDA r : Gt(r.pkn_space, 0) /\ Lt(r.pkn_space, 11))

PknFilter(d) == SelectSeq(d, LAMBDA r : Gt(r.pkn_space, 2) /\ Lt(r.pkn_space, 11))

RangeFilters(d) == PknFilter(BathFilter(BedToiletFilter(d)))

RECURSIVE Insert(_, _)
Insert(x, s) ==
  IF s = <<>> THEN <<x>>
  ELSE IF x <= Head(s) THEN <<x>> \o s
  ELSE <<Head(s)>> \o Insert(x, Tail(s))

RECURSIVE SortAsc(_)
SortAsc(s) == IF s = <<>> THEN <<>> ELSE Insert(Head(s), SortAsc(Tail(s)))

\* the percentile asked for, and the scale that keeps its interpolation whole
Q == 96
Scale == 100

\* Scale * np.percentile(a, Q) for a non-empty a: linear interpolation between
\* the two order statistics around position Q/100 * (n - 1); NaN when a holds NaN
Percentile(a) ==
  IF \E i \in DOMAIN a : a[i] = NaN THEN NaN
  ELSE LET srt == SortAsc(a)
           pos == Q * (Len(a) - 1)
           lo == pos \div Scale
           fr == pos % Scale
       IN  IF fr = 0 THEN Scale * srt[lo + 1]
           ELSE Scale * srt[lo + 1] + fr * (srt[lo + 2] - srt[lo + 1])

Prices(d) == [i \in DOMAIN d |-> d[i].price]

\* a plausible slip: a strict comparison with the cut-off
PriceFilterStrict(d, cut) ==
  SelectSeq(d, LAMBDA r : cut # NaN /\ r.price # NaN /\ Scale * r.price < cut)

\* df.loc[df["price"] <= cut_off]
PriceFilter(d, cut) ==
  SelectSeq(d, LAMBDA r : cut # NaN /\ r.price # NaN /\ Scale * r.price <= cut)

\* The filter chain of lines 108-116.  np.percentile of an empty column
\* raises in some numpy builds and returns NaN in others: onEmpty names
\* which ("raise" or "nan").
FilterChain(d, onEmpty) ==
  LET ranged == RangeFilters(d)
  IN  IF ranged = <<>>
      THEN [status |-> IF onEmpty = "raise" THEN "percentile_error" ELSE "ok",
            cut |-> NaN, rows |-> <<>>]
      ELSE LET cut == Percentile(Prices(ranged))
           IN  [status |-> "ok", cut |-> cut, rows |-> PriceFilter(ranged, cut)]

\* median of a column, NaN skipped (used only to fill NaN, of which the
\* parking filter leaves none; the halves of an even count are rounded down)
Median(a) ==
  LET srt == SortAsc(SelectSeq(a, LAMBDA x : x # NaN))
      n == Len(srt)
  IN  IF n = 0 THEN NaN
      ELSE IF n % 2 = 1 THEN srt[(n + 1) \div 2]
      ELSE (srt[n \div 2] + srt[n \div 2 + 1]) \div 2

FillPkn(d) ==
  LET median == Median([i \in DOMAIN d |-> d[i].pkn_space])
  IN  [i \in DOMAIN d |->
         [d[i] EXCEPT !.pkn_space = IF @ = NaN THEN median ELSE @]]

\* rename title -> type, address -> location
RenamedColumns ==
  [i \in DOMAIN Columns |->
     IF Columns[i] = "title" THEN "type"
     ELSE IF Columns[i] = "address" THEN "location"
     ELSE Columns[i]]

Rename(d) ==
  [i \in DOMAIN d |->
     [type |-> d[i].title, location |-> d[i].address, bed |-> d[i].bed,
      bath |-> d[i].bath, toilet |-> d[i].toilet,
      pkn_space |-> d[i].pkn_space, price |-> d[i].price]]

(***************************************************************************)
(* The location frequency table and its 15 most frequent labels.           *)
(***************************************************************************)
TopN == 15

\* the order of str values
CodeOf == [c \in CharSet |-> IndexOf(c, CodePoints)]

RECURSIVE LexLess(_, _)
LexLess(a, b) ==
  IF b = <<>> THEN FALSE
  ELSE IF a = <<>> THEN TRUE
  ELSE IF Head(a) = Head(b) THEN LexLess(Tail(a), Tail(b))
  ELSE CodeOf[Head(a)] < CodeOf[Head(b)]

\* pd.crosstab(index=df["location"], columns="Count")
Crosstab(d) ==
  [l \in {d[i].location : i \in DOMAIN d} |->
     Cardinality({i \in DOMAIN d : d[i].location = l})]

RECURSIVE KSubsets(_, _)
KSubsets(S, k) ==
  IF k = 0 THEN {{}}
  ELSE UNION {{T \cup {x} : T \in KSubsets(S \ {x}, k - 1)} : x \in S}

\* the subsets of S with k elements, through the smaller of the two sides
Choose(S, k) ==
  IF 2 * k <= Cardinality(S) THEN KSubsets(S, k)
  ELSE {S \ E : E \in KSubsets(S, Cardinality(S) - k)}

\* a plausible slip: the sort lost, the crosstab's label order kept
TopLocationsUnsorted(ct) ==
  LET n == Min(TopN, Cardinality(DOMAIN ct))
  IN  {{l \in DOMAIN ct : Cardinality({m \in DOMAIN ct : LexLess(m, l)}) < n}}

\* sort_values(ascending=False), reset_index()[:15]: the label sets that the
\* first 15 rows can hold.  The sort is not stable, so equal counts may come
\* in any order.
TopLocations(ct) ==
  LET labels == DOMAIN ct
      n == Min(TopN, Cardinality(labels))
      AtLeast(v) == {l \in labels : ct[l] >= v}
  IN  IF n = 0 THEN {{}}
      ELSE LET last == CHOOSE v \in {ct[l] : l \in labels} :
                         /\ Cardinality(AtLeast(v)) >= n
                         /\ Cardinality(AtLeast(v + 1)) < n
               above == AtLeast(last + 1)
               ties == AtLeast(last) \ above
           IN  {above \cup T : T \in Choose(ties, n - Cardinality(above))}

(***************************************************************************)
(* LabelEncoder, the split and the regressor.                              *)
(***************************************************************************)
\* LabelEncoder.fit: classes_ is the sorted set of distinct labels
Fit(labels) == Range(labels)

Code(classes, l) == Cardinality({x \in classes : LexLess(x, l)})

\* a plausible slip: an unseen label falls back to code 0
LabelTransformDefault(classes, l) ==
  [raised |-> FALSE, codes |-> IF l \in classes THEN {Code(classes, l)} ELSE {0}]

\* LabelEncoder.transform: raises ValueError on a label not in classes_
LabelTransform(classes, l) ==
  IF l \in classes THEN [raised |-> FALSE, codes |-> {Code(classes, l)}]
  ELSE [raised |-> TRUE, codes |-> {}]

\* X = df.drop(columns=["price"]) (and the log_price column added for y)
XColumns == SelectSeq(RenamedColumns, LAMBDA c : c # "price")

\* train_test_split(test_size=0.2): the train part holds floor(0.8 n) rows
NTrain(n) == (8 * n) \div 10

NoModel ==
  [run |-> 0, reg |-> [features |-> <<>>, n_train |-> 0], type |-> {}, location |-> {}]

\* reg.fit(X_train, y_train) and the dict that is pickled; run names the
\* training run that built it
FitModel(fitset, run) ==
  [run |-> run,
   reg |-> [features |-> XColumns, n_train |-> NTrain(Len(fitset))],
   type |-> Fit([i \in DOMAIN fitset |-> fitset[i].type]),
   location |-> Fit([i \in DOMAIN fitset |-> fitset[i].location])]

\* a plausible slip: an exclusive create, which keeps a file that is there
PersistKeepExisting(old, new) == IF old.run = 0 THEN new ELSE old

\* open("./model/estimator.pkl", "wb") and pickle.dump: the file is replaced
Persist(old, new) == new

NoTrain ==
  [outcome |-> "none", cut |-> NaN, filtered |-> <<>>, locations |-> {}, fitset |-> <<>>]

\* lines 92-123: the table up to the renamed, filtered frame
Prepared(t, onEmpty) ==
  LET dropped == dropna(t)
  IN  IF CleanerRaises(dropped)
      THEN [outcome |-> "cleaner_error", cut |-> NaN, filtered |-> <<>>]
      ELSE LET ch == FilterChain(CleanAndConvert(dropped), onEmpty)
           IN  IF ch.status # "ok"
               THEN [outcome |-> "percentile_error", cut |-> NaN, filtered |-> <<>>]
               ELSE [outcome |-> "ok", cut |-> ch.cut,
                     filtered |-> Rename(FillPkn(ch.rows))]

\* lines 125-148 for one choice of the retained locations
Trained(p, locations) ==
  IF p.outcome # "ok"
  THEN [outcome |-> p.outcome, cut |-> p.cut, filtered |-> <<>>,
        locations |-> {}, fitset |-> <<>>]
  ELSE LET fitset == SelectSeq(p.filtered, LAMBDA r : r.location \in locations)
       IN  [outcome |-> IF NTrain(Len(fitset)) = 0 THEN "split_error" ELSE "persisted",
            cut |-> p.cut, filtered |-> p.filtered,
            locations |-> locations, fitset |-> fitset]

\* One run of the training script over the rows in data/.
clean_data_n_return_estimator ==
  /\ runs < MaxRuns
  /\ \E p \in {Prepared(table, onEmpty) : onEmpty \in {"raise", "nan"}} :
       \E locations \in (IF p.outcome = "ok" THEN TopLocations(Crosstab(p.filtered))
                         ELSE {{}}) :
         train' = Trained(p, locations)
  /\ \E model \in {FitModel(train'.fitset, runs + 1)} :
       /\ artifact' = IF train'.outcome = "persisted" THEN Persist(artifact, model)
                      ELSE artifact
       /\ completed' = IF train'.outcome = "persisted" THEN model ELSE completed
  /\ runs' = runs + 1
  /\ lastop' = "train"
  /\ UNCHANGED <<table, pred>>
  /\ UNCHANGED <<cleanerVars, chainVars>>

(***************************************************************************)
(* The prediction handler.                                                 *)
(***************************************************************************)
FormFields == <<"location", "bed", "bath", "toilet", "pkn_space">>

NoPred ==
  [location |-> <<>>, fields |-> <<>>, codes |-> {}, outcome |-> "none", used |-> NoModel]

\* load_estimator: the file as it is on disk now
load_estimator == artifact

predict_one(form) ==
  LET estimator == load_estimator
      new_data == [i \in DOMAIN FormFields |-> form[FormFields[i]]]
      enc == LabelTransform(estimator.location, new_data[1])
  IN  IF estimator.run = 0
      THEN [location |-> form.location, fields |-> <<>>, codes |-> {},
            outcome |-> "load_error", used |-> estimator]
      ELSE IF enc.raised
      THEN [location |-> form.location, fields |-> FormFields, codes |-> {},
            outcome |-> "unseen_label_error", used |-> estimator]
      ELSE IF Len(new_data) # Len(estimator.reg.features)
      THEN [location |-> form.location, fields |-> FormFields, codes |-> enc.codes,
            outcome |-> "feature_count_error", used |-> estimator]
      ELSE [location |-> form.location, fields |-> FormFields, codes |-> enc.codes,
            outcome |-> "price", used |-> estimator]

predict ==
  /\ \E form \in [location : {<<"a">>, <<"b">>, <<"z">>}, bed : {<<"3">>},
                  bath : {<<"3">>}, toilet : {<<"3">>}, pkn_space : {<<"3">>}] :
       pred' = predict_one(form)
  /\ lastop' = "predict"
  /\ UNCHANGED <<table, train, artifact, completed, runs>>
  /\ UNCHANGED <<cleanerVars, chainVars>>

(***************************************************************************)
(* Rows as the scraper writes them and load_data reads them back.          *)
(***************************************************************************)
Address(city) == <<"s", ",", " ">> \o city \o <<",", " ", "n">>

RawRow(city, bed, bath, toilet, pkn, price) ==
  [title |-> StrCell(<<"3", " ", "b", "e", "d", " ", "D", "U", "P", "L", "E", "X">>),
   address |-> StrCell(Address(city)),
   bed |-> StrCell(bed), bath |-> StrCell(bath), toilet |-> StrCell(toilet),
   pkn_space |-> StrCell(pkn), price |-> StrCell(price)]

GoodRow(city, price) == RawRow(city, <<"2", "b">>, <<"2">>, <<"7">>, <<"3">>, <<"N">> \o price)

RowChoices ==
  LET g == GoodRow(<<"a">>, <<"5">>)
  IN  { g,
        GoodRow(<<"a">>, <<"9">>),
        GoodRow(<<"b">>, <<"5">>),
        [g EXCEPT !.bed = StrCell(<<"1">>)],
        [g EXCEPT !.bath = StrCell(<<"1">>)],
        [g EXCEPT !.bath = StrCell(<<"8">>)],
        [g EXCEPT !.toilet = StrCell(<<"8">>)],
        [g EXCEPT !.pkn_space = StrCell(<<"2">>)],
        [g EXCEPT !.pkn_space = StrCell(<<"1", "1">>)],
        [g EXCEPT !.bed = StrCell(<<"b">>)],
        [g EXCEPT !.bath = StrCell(<<"x">>)],
        [g EXCEPT !.toilet = StrCell(<<" ">>)],
        [g EXCEPT !.pkn_space = StrCell(<<"-">>)],
        [g EXCEPT !.price = StrCell(<<"P", "O", "A">>)],
        [g EXCEPT !.title = NanCell],
        [g EXCEPT !.bed = IntCell(3)] }

LifeRows ==
  { GoodRow(<<"a">>, <<"5">>), GoodRow(<<"b">>, <<"5">>),
    [GoodRow(<<"a">>, <<"5">>) EXCEPT !.bed = IntCell(3)] }

\* one row for each of 15 cities, and the cities further rows may name
BaseTable == [i \in 1..TopN |-> GoodRow(<<Lowers[i]>>, <<"5">>)]
LocRows == {GoodRow(<<c>>, <<"5">>) : c \in {"a", "p", "q"}}

\* the scraper's writerow, read back by load_data: one more row in data/
AppendRow(choices, limit) ==
  /\ Len(table) < limit
  /\ \E r \in choices : table' = Append(table, r)
  /\ lastop' = "load"
  /\ UNCHANGED <<train, artifact, pred, completed, runs>>
  /\ UNCHANGED <<cleanerVars, chainVars>>

load_data == AppendRow(LifeRows, MaxLifeRows)

LoadRow == runs = 0 /\ AppendRow(RowChoices, MaxRows)

LoadLocRow == runs = 0 /\ AppendRow(LocRows, TopN + MaxExtra)

TrainOnce == runs = 0 /\ clean_data_n_return_estimator

(***************************************************************************)
(* The cleaners and the filter chain applied to drawn inputs.              *)
(***************************************************************************)
Strings(alphabet, n) == UNION {[1..k -> alphabet] : k \in 0..n}

Chunks ==
  { <<"h","o","u","s","e">>,
    <<"D","E","T","A","C","H","E","D">>,
    <<"s","e","m","i","-">>,
    <<"s","e","m","U+0130","-">>,
    <<"d","e","t","a","c","h","e","d">>,
    <<"b","l","o","c","k"," ","o","f"," ","f","l","a","t","s">>,
    <<"m","a","n","s","U+0130","o","n">>,
    <<"D","u","p","l","e","x">>,
    <<" ">>,
    <<"x">> }

NumRow(bed, pkn, price) ==
  [title |-> <<"D", "u", "p", "l", "e", "x">>, address |-> <<"a">>,
   bed |-> bed, bath |-> 2, toilet |-> 7, pkn_space |-> pkn, price |-> price]

ChainRows ==
  { NumRow(2, 3, 1), NumRow(2, 3, 2), NumRow(2, 3, 3),
    NumRow(2, 2, 1), NumRow(1, 3, 2), NumRow(2, 3, NaN) }

ApplyGetAddress ==
  /\ cpc = "input"
  /\ out' = get_address(text)
  /\ cpc' = "once"
  /\ UNCHANGED <<text, out2>>
  /\ UNCHANGED <<chainVars, pipelineVars>>

ApplyExtractDetails ==
  /\ cpc = "input"
  /\ out' = extract_details(text)
  /\ cpc' = "once"
  /\ UNCHANGED <<text, out2>>
  /\ UNCHANGED <<chainVars, pipelineVars>>

ReapplyExtractDetails ==
  /\ cpc = "once"
  /\ out2' = extract_details(out)
  /\ cpc' = "twice"
  /\ UNCHANGED <<text, out>>
  /\ UNCHANGED <<chainVars, pipelineVars>>

NoChain == [status |-> "none", cut |-> NaN, rows |-> <<>>]

ApplyChain ==
  /\ kpc = "input"
  /\ \E r \in {FilterChain(df, onEmpty) : onEmpty \in {"raise", "nan"}} : once' = r
  /\ kpc' = "once"
  /\ UNCHANGED <<df, twice>>
  /\ UNCHANGED <<cleanerVars, pipelineVars>>

ReapplyChain ==
  /\ kpc = "once"
  /\ once.status = "ok"
  /\ \E r \in {FilterChain(once.rows, onEmpty) : onEmpty \in {"raise", "nan"}} : twice' = r
  /\ kpc' = "twice"
  /\ UNCHANGED <<df, once>>
  /\ UNCHANGED <<cleanerVars, pipelineVars>>

(***************************************************************************)
(* Specifications.                                                         *)
(***************************************************************************)
CleanerIdle == text = <<>> /\ out = <<>> /\ out2 = <<>> /\ cpc = "idle"
ChainIdle == df = <<>> /\ once = NoChain /\ twice = NoChain /\ kpc = "idle"
PipelineIdle(t) ==
  /\ table = t
  /\ train = NoTrain
  /\ artifact = NoModel
  /\ pred = NoPred
  /\ completed = NoModel
  /\ runs = 0
  /\ lastop = "none"

\* the service over time: rows arrive, the training script runs, requests come
Init == CleanerIdle /\ ChainIdle /\ PipelineIdle(<<>>)
Next == load_data \/ clean_data_n_return_estimator \/ predict
Spec == Init /\ [][Next]_vars

\* one training run over a drawn table
InitTrain == Init
NextTrain == LoadRow \/ TrainOnce
SpecTrain == InitTrain /\ [][NextTrain]_vars

\* one training run over a table with more than 15 cities
InitLoc == CleanerIdle /\ ChainIdle /\ PipelineIdle(BaseTable)
NextLoc == LoadLocRow \/ TrainOnce
SpecLoc == InitLoc /\ [][NextLoc]_vars

\* get_address over drawn addresses
InitAddr ==
  /\ text \in Strings({"a", " ", ","}, MaxAddrLen)
  /\ out = <<>> /\ out2 = <<>> /\ cpc = "input"
  /\ ChainIdle /\ PipelineIdle(<<>>)
NextAddr == ApplyGetAddress
SpecAddr == InitAddr /\ [][NextAddr]_vars

\* extract_details over drawn titles, applied once and again
InitDetails ==
  /\ text \in {Concat(cs) : cs \in Strings(Chunks, MaxChunks)}
  /\ out = <<>> /\ out2 = <<>> /\ cpc = "input"
  /\ ChainIdle /\ PipelineIdle(<<>>)
NextDetails == ApplyExtractDetails \/ ReapplyExtractDetails
SpecDetails == InitDetails /\ [][NextDetails]_vars

\* the filter chain over drawn numeric tables, applied once and again
InitChain ==
  /\ df \in Strings(ChainRows, MaxChainRows)
  /\ once = NoChain /\ twice = NoChain /\ kpc = "input"
  /\ CleanerIdle /\ PipelineIdle(<<>>)
NextChain == ApplyChain \/ ReapplyChain
SpecChain == InitChain /\ [][NextChain]_vars

(***************************************************************************)
(* Properties.                                                             *)
(***************************************************************************)
Predicted == pred.outcome \notin {"none", "load_error"}

\* C1: a request whose location was seen at training time hands the
\* regressor the columns it was fitted on, in the same order, and yields a
\* price estimate.
C1_SeenLocationYieldsPrice ==
  (Predicted /\ pred.location \in pred.used.location)
    => (pred.fields = pred.used.reg.features /\ pred.outcome = "price")

\* C2: a request whose location is not among the labels the location
\* encoder was fitted on ends in the unseen-label error, with no code
\* assigned to the location and no price estimate.
C2_UnseenLocationIsError ==
  (Predicted /\ pred.location \notin pred.used.location)
    => (pred.outcome = "unseen_label_error" /\ pred.codes = {})

C2_Witness ==
  /\ pred.outcome = "unseen_label_error"
  /\ pred.location = <<"z">>
  /\ pred.used.location = {<<"a">>, <<"b">>}

C4_TopLocations ==
  train.outcome \in {"persisted", "split_error"} =>
    LET rows == train.filtered
        labels == {rows[i].location : i \in DOMAIN rows}
        cnt(l) == Cardinality({i \in DOMAIN rows : rows[i].location = l})
    IN  /\ train.locations \subseteq labels
        /\ Cardinality(train.locations) = Min(15, Cardinality(labels))
        /\ train.fitset = SelectSeq(rows, LAMBDA r : r.location \in train.locations)
        /\ \A e \in labels \ train.locations : \A k \in train.locations : cnt(e) <= cnt(k)

C4_Witness ==
  /\ train.outcome = "persisted"
  /\ Cardinality({train.filtered[i].location : i \in DOMAIN train.filtered}) = 17
  /\ <<"p">> \in train.locations
  /\ <<"q">> \notin train.locations
  /\ Len(train.fitset) = 16

\* C5 as stated: applying the filter chain to its own output returns that
\* output unchanged.
C5_ChainIdempotent ==
  (kpc = "twice" /\ twice.status = "ok") => twice.rows = once.rows

\* C5 amended: applied to its own output, the chain removes nothing by its
\* range filters and keeps exactly the rows whose price is not above the 96th
\* percentile recomputed over that output.
C5_ChainReapplied ==
  (kpc = "twice" /\ twice.status = "ok") =>
    IF once.rows = <<>> THEN twice.rows = <<>>
    ELSE twice.rows =
           SelectSeq(once.rows,
                     LAMBDA r : Scale * r.price <= Percentile(Prices(once.rows)))

C5_Witness ==
  /\ kpc = "twice"
  /\ twice.status = "ok"
  /\ Len(once.rows) = 2
  /\ Len(twice.rows) = 1

\* C6: for an address with at least two comma-separated segments get_address
\* returns the second-to-last segment without its surrounding whitespace; for
\* an address with fewer it returns the empty string.
C6_GetAddress ==
  cpc = "once" =>
    LET commas == {i \in DOMAIN text : text[i] = ","}
    IN  IF commas = {} THEN out = <<>>
        ELSE LET last == CHOOSE i \in commas : \A j \in commas : j <= i
                 before == {i \in commas : i < last}
                 prev == IF before = {} THEN 0
                         ELSE CHOOSE i \in before : \A j \in before : j <= i
                 seg == SubSeq(text, prev + 1, last - 1)
             IN  \E a, b \in 0..Len(seg) :
                   /\ a + b <= Len(seg)
                   /\ out = SubSeq(seg, a + 1, Len(seg) - b)
                   /\ \A i \in 1..a : seg[i] = " "
                   /\ \A i \in (Len(seg) - b + 1)..Len(seg) : seg[i] = " "
                   /\ out # <<>> => (out[1] # " " /\ out[Len(out)] # " ")

C6_Witness ==
  /\ cpc = "once"
  /\ text = <<",", " ", "a", ",">>
  /\ out = <<"a">>

\* C7: extract_details applied to its own output returns that output.
C7_ExtractIdempotent == cpc = "twice" => out2 = out

\* C8: a prediction request leaves the persisted artifact unchanged, the
\* artifact changes only in a training run that reaches its persist step, and
\* a prediction loads the artifact of the most recent completed training run.
C8_ArtifactLifecycle ==
  [][ /\ (lastop' = "predict" => (artifact' = artifact /\ pred'.used = completed))
      /\ (artifact' # artifact => (lastop' = "train" /\ train'.outcome = "persisted")) ]_vars

C8_Witness ==
  /\ lastop = "predict"
  /\ runs = 2
  /\ train.outcome = "cleaner_error"
  /\ pred.used.run = 1
  /\ pred.used = completed

\* the rows of t none of whose five numeric fields cleans to a non-number
Coercible(t) ==
  SelectSeq(t, LAMBDA r : \A c \in NumericColumnSet : NumericRow(CleanRow(r))[c] # NaN)

\* C9: a record one of whose five numeric fields fails coercion is dropped
\* and training proceeds over the remaining records: the rows that reach the
\* location table are those a run over the remaining records gives.
C9_CoercionFailureDropsRecord ==
  (train.outcome # "none" /\ ~CleanerRaises(dropna(table))) =>
    train.filtered = Prepared(Coercible(dropna(table)), "nan").filtered

\* C10: no failure of a cleaner on one field aborts the run.
C10_CleanerFailureTolerated == train.outcome # "cleaner_error"

=============================================================================
